---- MODULE Spec2Model ----
(***************************************************************************)
(* Model of the two data-collection scripts of Repo-Details:               *)
(*   Repo-Details/fetch_repo_details.py  (cursor paginator fetch_data)     *)
(*   lfs-details/lfs-repos.py            (safe_request, offset paginators, *)
(*                                        LFS audit)                       *)
(* One run executes one of the two scripts; the remote API is the          *)
(* environment and answers every request nondeterministically.             *)
(***************************************************************************)
EXTENDS Integers, Sequences, FiniteSets, TLC

\* ---------------------------------------------------------------- bounds
\* Largest number of requests the remote lets fetch_data make: the remote
\* answers hasNextPage=true only while fewer than MaxCalls requests were made.
MaxCalls == 3
\* Largest number of nodes the remote listing holds over all its pages.
MaxNodes == 3

\* ------------------------------------------------------- optional values
\* Python None is the empty tuple, a present value v is <<v>>.
None == <<>>
Some(v) == <<v>>
IsNone(o) == o = <<>>
Get(o) == o[1]

\* The null cursor (Python None sent as the GraphQL variable "cursor").
NULL == "null"
Cursors == {"c1", "c2"}

\* ------------------------------------------------------- sequence helpers
RECURSIVE SeqsUpTo(_, _)
SeqsUpTo(S, n) ==
    IF n = 0 THEN {<<>>}
    ELSE LET shorter == SeqsUpTo(S, n - 1)
         IN shorter \cup {Append(s, x) : s \in {t \in shorter : Len(t) = n - 1}, x \in S}

RECURSIVE Flatten(_)
Flatten(ss) == IF ss = <<>> THEN <<>> ELSE Head(ss) \o Flatten(Tail(ss))

\* str.join: the items with the separator between every two of them.
RECURSIVE Join(_, _)
Join(sep, names) ==
    IF names = <<>> THEN <<>>
    ELSE IF Len(names) = 1 THEN <<names[1]>>
    ELSE <<names[1], sep>> \o Join(sep, Tail(names))

\* =========================================================================
\* Repo-Details/fetch_repo_details.py
\* =========================================================================

\* The sub-objects of a node that carry one totalCount each.
CountFields == {"branches", "pullRequests", "mergedPRs", "closedPRs",
                "issues", "closedIssues", "releases", "tags"}

AllCounts(n) == [f \in CountFields |-> Some(n)]

\* Nodes the remote can deliver.  defaultBranchRef is None or Some(target),
\* target is None or Some(history.totalCount); languages is the connection
\* (None) or Some(list of names).
nodeFull ==
    [name |-> "alpha", diskUsage |-> Some(2048), visibility |-> "PUBLIC",
     defaultBranchRef |-> Some(Some(7)), counts |-> AllCounts(3),
     languages |-> Some(<<"Python", "Go">>)]
nodeBare ==
    [name |-> "beta", diskUsage |-> None, visibility |-> "PRIVATE",
     defaultBranchRef |-> None, counts |-> AllCounts(0),
     languages |-> Some(<<>>)]
nodeNoRefs ==
    [name |-> "gamma", diskUsage |-> Some(128), visibility |-> "INTERNAL",
     defaultBranchRef |-> Some(Some(1)),
     counts |-> [AllCounts(1) EXCEPT !["branches"] = None],
     languages |-> Some(<<"C">>)]
NodePool == {nodeFull, nodeBare, nodeNoRefs}

\* round(x / 1024, 2) in hundredths: x / 1024 is exact in binary floating
\* point, so Python rounds the exact quotient, ties to the even hundredth.
RoundSizeMb(kb) ==
    LET q == (kb * 100) \div 1024
        r == (kb * 100) % 1024
    IN IF r * 2 < 1024 THEN q
       ELSE IF r * 2 > 1024 THEN q + 1
       ELSE IF q % 2 = 0 THEN q ELSE q + 1

\* Slip: the empty list is joined like any other.
LanguagesNoSentinel(names) == Join(", ", names)
\* ", ".join(names) if the list is non-empty else "N/A"
Languages(names) == IF names # <<>> THEN Join(", ", names) ELSE <<"N/A">>

\* Slip: defaultBranchRef is subscripted without the "if ... else 0" guard.
NodeFaultsNoGuard(repo) ==
    \/ IsNone(repo.languages)
    \/ IsNone(repo.defaultBranchRef)
    \/ IsNone(Get(repo.defaultBranchRef))
    \/ \E f \in CountFields : IsNone(repo.counts[f])
\* The dict literal of lines 112-128 raises (TypeError: 'NoneType' object is
\* not subscriptable) when a sub-object it subscripts is None.
NodeFaults(repo) ==
    \/ IsNone(repo.languages)
    \/ (~IsNone(repo.defaultBranchRef) /\ IsNone(Get(repo.defaultBranchRef)))
    \/ \E f \in CountFields : IsNone(repo.counts[f])

TotalCommits(repo) ==
    IF ~IsNone(repo.defaultBranchRef) THEN Get(Get(repo.defaultBranchRef)) ELSE 0

Normalize(repo) ==
    [repo_name     |-> repo.name,
     repo_size_mb  |-> RoundSizeMb(IF IsNone(repo.diskUsage) THEN 0 ELSE Get(repo.diskUsage)),
     visibility    |-> repo.visibility,
     total_commits |-> TotalCommits(repo),
     counts        |-> [f \in CountFields |-> Get(repo.counts[f])],
     languages     |-> Languages(Get(repo.languages))]

\* Slip: records are inserted at the front instead of appended.
RECURSIVE PrependNodes(_, _)
PrependNodes(data, nodes) ==
    IF nodes = <<>> THEN [data |-> data, raised |-> FALSE]
    ELSE IF NodeFaults(Head(nodes)) THEN [data |-> data, raised |-> TRUE]
    ELSE PrependNodes(<<Normalize(Head(nodes))>> \o data, Tail(nodes))
\* The loop "for repo in repos: repo_data.append({...})": the records appended
\* before the first node whose dict literal raises, and whether one raised.
RECURSIVE AppendNodes(_, _)
AppendNodes(data, nodes) ==
    IF nodes = <<>> THEN [data |-> data, raised |-> FALSE]
    ELSE IF NodeFaults(Head(nodes)) THEN [data |-> data, raised |-> TRUE]
    ELSE AppendNodes(Append(data, Normalize(Head(nodes))), Tail(nodes))

\* Rate-limit headers of a response: each is absent (None) or Some(value);
\* the reset header is given relative to the clock at the time it is read.
LOW_WATER == 10
SAFETY_MARGIN == 5
DEFAULT_REMAINING == 1
DEFAULT_RESET_IN == 60
RateHeaders ==
    {[remaining |-> None,      resetIn |-> None],
     [remaining |-> Some(5),   resetIn |-> Some(30)],
     [remaining |-> Some(5),   resetIn |-> Some(0 - 5)],
     [remaining |-> Some(5),   resetIn |-> Some(0 - 10)],
     [remaining |-> Some(10),  resetIn |-> Some(30)]}

Remaining(h) == IF IsNone(h.remaining) THEN DEFAULT_REMAINING ELSE Get(h.remaining)
\* wait_time = reset_time - time.time() + 5
WaitTime(h) ==
    (IF IsNone(h.resetIn) THEN DEFAULT_RESET_IN ELSE Get(h.resetIn)) + SAFETY_MARGIN
\* Slip: the low-water test includes the mark itself.
RateLimitedInclusive(h) == Remaining(h) <= LOW_WATER
\* if remaining < 10:
RateLimited(h) == Remaining(h) < LOW_WATER
\* time.sleep raises ValueError for a negative length.
SleepRaises(secs) == secs < 0

\* Slip: the cursor is never advanced.
StaleCursor(cur, page_info) == cur
\* cursor = page_info['endCursor']
NextCursor(cur, page_info) == page_info.endCursor
\* Slip: the loop flag is never cleared.
AlwaysNextPage(page_info) == TRUE
\* has_next_page = page_info['hasNextPage']
NextHasNextPage(page_info) == page_info.hasNextPage

\* pageInfo values the remote can send after 'made' requests were answered:
\* a page followed by another carries the cursor of its last node.
PageInfos(made) ==
    {[hasNextPage |-> TRUE, endCursor |-> c] : c \in IF made < MaxCalls THEN Cursors ELSE {}}
    \cup {[hasNextPage |-> FALSE, endCursor |-> c] : c \in Cursors \cup {NULL}}

\* Node lists the remote can send when 'got' nodes were already delivered.
Pages(got) == SeqsUpTo(NodePool, MaxNodes - got)


\* =========================================================================
\* lfs-details/lfs-repos.py
\* =========================================================================

\* Largest number of repositories the organisation listing holds, and of
\* branches one repository has, over all pages.
MaxRepos == 2
MaxBranches == 2

\* for attempt in range(3)
MAX_ATTEMPTS == 3
TIMEOUT_DELAY == 5
CONNECTION_DELAY == 5
REQUEST_EXCEPTION_DELAY == 3
PAGE_DELAY == 1
BATCH_SIZE == 100
BATCH_DELAY == 10

\* What one attempt of safe_request can end with instead of a response:
\* requests.exceptions.Timeout, ConnectionError, or any other
\* RequestException (raise_for_status on a 4xx/5xx status other than 404, or
\* RetryError once the adapter's own retries of a 5xx status are used up).
FailureKinds == {"timeout", "connection", "request_exception"}

\* Slip: one delay for every kind of failure.
FailureDelayUniform(kind) == TIMEOUT_DELAY
\* The time.sleep of the except-clause that catches the failure.
FailureDelay(kind) ==
    CASE kind = "timeout" -> TIMEOUT_DELAY
      [] kind = "connection" -> CONNECTION_DELAY
      [] OTHER -> REQUEST_EXCEPTION_DELAY

\* Slip: one attempt too many.
AfterFailureFour(att) == IF att + 1 < MAX_ATTEMPTS + 1 THEN "retry" ELSE "none"
\* Slip: a failed attempt is never retried.
AfterFailureNoRetry(att) == "none"
\* After the failure of attempt number 'att' (0-based): the for-loop goes on
\* to the next attempt, or is exhausted and safe_request returns None.
AfterFailure(att) == IF att + 1 < MAX_ATTEMPTS THEN "retry" ELSE "none"

\* Slip: the attempts are not counted.
SameAttempt(att) == att
\* "for attempt in range(3)": the next attempt.
NextAttempt(att) == att + 1

\* Slip: the accumulated items are dropped when safe_request gives up.
DiscardOnNoResult(acc) == <<>>
\* "if not response: return repos" / "return branches": the paginator
\* returns what it accumulated.
OnNoResult(acc) == acc

\* Slip: the page counter is not advanced.
SamePage(p) == p
\* page += 1
NextPage(p) == p + 1

\* bool(response) of a requests.Response is response.ok: status below 400.
\* A response is None or Some([status, body]).
Truthy(response) == ~IsNone(response) /\ Get(response).status < 400

\* The remote serves each listing in its own fixed order, in pages of any
\* size: the items after the first 'got' ones, at most 'most' in total.
RepoNames == <<"r1", "r2", "r3", "r4">>
BranchNames == <<"main", "dev", "release", "hotfix">>
RECURSIVE Items(_, _, _)
Items(names, from, to) ==
    IF from > to THEN <<>> ELSE <<[name |-> names[from]]>> \o Items(names, from + 1, to)
ListingPages(names, got, most) == {Items(names, got + 1, got + k) : k \in 0..(most - got)}

\* [branch["name"] for branch in data]
RECURSIVE Names(_)
Names(data) == IF data = <<>> THEN <<>> ELSE <<Head(data).name>> \o Names(Tail(data))

\* Text of an attributes file, as a sequence of tokens, and the marker
\* "filter=lfs" as the tokens it consists of.
MARKER == <<"filter", "=", "lfs">>
TextLfs == <<"*.psd", " ", "filter", "=", "lfs", " ", "diff", "=", "lfs">>
TextPlain == <<"*.txt", " ", "text">>
TextNearMiss == <<"*.key", " ", "filter", "=", "git-crypt", " ", "lfs">>

\* "filter=lfs" in decoded_content: substring search.
Contains(marker, text) ==
    \E i \in 1..(Len(text) - Len(marker) + 1) :
        \A j \in 1..Len(marker) : text[i + j - 1] = marker[j]

\* The "content" field: base64 of a byte string.  b64ok: the field is valid
\* base64; utf8ok: the bytes are valid UTF-8; text: what they decode to.
B64(text) == [b64ok |-> TRUE, utf8ok |-> TRUE, text |-> text]
BadBase64 == [b64ok |-> FALSE, utf8ok |-> TRUE, text |-> TextLfs]
BadUtf8 == [b64ok |-> TRUE, utf8ok |-> FALSE, text |-> TextLfs]

\* Bodies of a 200 reply to the probe: json is FALSE when the body is no
\* JSON; content is None when the "content" key is missing.
ProbeBodies ==
    {[json |-> TRUE, content |-> Some(B64(t))] : t \in {TextLfs, TextPlain, TextNearMiss}}
    \cup {[json |-> TRUE, content |-> Some(BadBase64)],
          [json |-> TRUE, content |-> Some(BadUtf8)],
          [json |-> TRUE, content |-> None],
          [json |-> FALSE, content |-> None]}
NoBody == [json |-> FALSE, content |-> None]
ProbeResponses ==
    {[status |-> 200, body |-> b] : b \in ProbeBodies}
    \cup {[status |-> 404, body |-> NoBody], [status |-> 204, body |-> NoBody]}

\* How a reply to the probe is logged: "404", "undecodable" (status 200 with a
\* body that is no JSON, or whose content is no base64 of UTF-8 text), "reply".
ProbeOutcome(r) ==
    IF r.status = 404 THEN "404"
    ELSE IF r.status # 200 THEN "reply"
    ELSE IF ~r.body.json THEN "undecodable"
    ELSE IF IsNone(r.body.content) THEN "reply"
    ELSE IF Get(r.body.content).b64ok /\ Get(r.body.content).utf8ok THEN "reply"
    ELSE "undecodable"

\* Slip: the decoding is taken never to fail.
DecodeNeverRaises(body) == FALSE
\* The try-block of check_lfs_usage: response.json().get("content", ""),
\* base64.b64decode(...).decode("utf-8"); any exception is caught.
DecodeRaises(body) ==
    \/ ~body.json
    \/ (~IsNone(body.content) /\ (~Get(body.content).b64ok \/ ~Get(body.content).utf8ok))
DecodedContent(body) == IF IsNone(body.content) THEN <<>> ELSE Get(body.content).text

\* Whether the reply to a probe is an attributes file that holds the marker.
FileHasMarker(response) ==
    /\ ~IsNone(response)
    /\ Get(response).status = 200
    /\ Get(response).body.json
    /\ ~IsNone(Get(response).body.content)
    /\ Get(Get(response).body.content).b64ok
    /\ Get(Get(response).body.content).utf8ok
    /\ Contains(MARKER, Get(Get(response).body.content).text)

\* Slip: any response that is not None counts as LFS usage.
CheckLfsUsageAnyResponse(response) == ~IsNone(response)
\* check_lfs_usage, from the value safe_request returned.
CheckLfsUsage(response) ==
    IF Truthy(response)
    THEN IF Get(response).status = 404 THEN FALSE
         ELSE IF Get(response).status = 200
              THEN IF DecodeRaises(Get(response).body) THEN FALSE
                   ELSE Contains(MARKER, DecodedContent(Get(response).body))
              ELSE FALSE
    ELSE FALSE

\* Slip: no break; the probe of the last branch decides.
AuditStepNoBreak(found, pos, n) ==
    IF pos < n THEN "next" ELSE IF found THEN "yes" ELSE "no"
\* The for-loop over branches in main, after the probe of branch number pos
\* of n returned 'found': "yes" (lfs_used = "Yes"; break), "next" (probe the
\* next branch) or "no" (the loop ends with lfs_used = "No").
AuditStep(found, pos, n) ==
    IF found THEN "yes" ELSE IF pos < n THEN "next" ELSE "no"

\* Slip: the batch pause is left out.
ReposPageSleepsNoBatch(len) == <<PAGE_DELAY>>
\* The sleeps after a non-empty page of get_repositories, given len(repos).
ReposPageSleeps(len) ==
    (IF len % BATCH_SIZE = 0 THEN <<BATCH_DELAY>> ELSE <<>>) \o <<PAGE_DELAY>>
\* The sleeps after a non-empty page of get_branches, given len(branches).
BranchesPageSleeps(len) == <<PAGE_DELAY>>

\* results.append([repo_name, ", ".join(branches), lfs_used])
Row(repo, brs, used) == <<repo.name, Join(", ", brs), used>>

VARIABLES
    script,          \* which of the two scripts this run executes
    fd_pc,           \* "fetch" (in the while loop), "main" (fetch_data returned), "done"
    has_next_page, cursor, repo_data,   \* locals of fetch_data
    csv_file,        \* the output file of write_csv: None, or Some(rows)
    requests,        \* cursors sent so far, one per request
    replies,         \* per request: kind of the reply and its pageInfo
    received,        \* node lists of the data pages received, in arrival order
    fd_slept,        \* the rate-limit sleep of the latest iteration: None or Some(seconds)
    fd_headers,      \* the rate-limit headers the latest iteration read: None or Some(h)
    lfs_pc,          \* function whose safe_request call is in progress, or "done", "crashed"
    attempt,         \* loop variable of safe_request
    repos, page,     \* locals of get_repositories
    repositories, index, branches, results,   \* locals of main
    bidx,            \* position of the for-loop over branches
    gb_branches, gb_page,   \* locals of get_branches
    lfs_csv,         \* the output file of main: None, or Some(rows)
    lfs_last,        \* what the latest step did
    repos_recv,      \* pages get_repositories received, in arrival order
    gb_recv,         \* pages the latest get_branches call received
    probes,          \* probes of the latest audited repository
    pd_fn,           \* page-delay runs: the paginator run on page sizes alone
    pd_prev, pd_len, \* len of its list before and after the latest page
    pd_slept         \* the sleeps after the latest page

fd_vars == <<fd_pc, has_next_page, cursor, repo_data, csv_file,
             requests, replies, received, fd_slept, fd_headers>>

lfs_vars == <<lfs_pc, attempt, repos, page, repositories, index, branches, results,
              bidx, gb_branches, gb_page, lfs_csv, lfs_last, repos_recv, gb_recv, probes>>

pd_vars == <<pd_fn, pd_prev, pd_len, pd_slept>>

vars == <<script, fd_vars, lfs_vars, pd_vars>>

NoInfo == [hasNextPage |-> FALSE, endCursor |-> NULL]

FdInit ==
    /\ fd_pc = "fetch"
    /\ has_next_page = TRUE
    /\ cursor = NULL
    /\ repo_data = <<>>
    /\ csv_file = None
    /\ requests = <<>>
    /\ replies = <<>>
    /\ received = <<>>
    /\ fd_slept = None
    /\ fd_headers = None

InFetch == script = "fetch_repo_details" /\ fd_pc = "fetch" /\ has_next_page

\* A reply that ends the loop with "break": nothing else changes.
FdBreak(kind, status) ==
    /\ InFetch
    /\ requests' = Append(requests, cursor)
    /\ replies' = Append(replies, [kind |-> kind, status |-> status, page_info |-> NoInfo])
    /\ fd_pc' = "main"
    /\ fd_slept' = None
    /\ fd_headers' = None
    /\ UNCHANGED <<has_next_page, cursor, repo_data, csv_file, received>>
    /\ UNCHANGED <<script, lfs_vars, pd_vars>>

\* requests.post raises (timeout, connection error): except-branch, break.
\* The reply is logged with status 0.
FetchException == \E kind \in {"timeout", "connection"} : FdBreak(kind, 0)
\* status_code != 200: else-branch, break.
FetchHttpError == \E status \in {404, 500, 503} : FdBreak("http_error", status)
\* status 200 and 'errors' in json_data: break.
FetchGraphQLErrors == FdBreak("errors", 200)

\* status 200 with a data page.
FetchPage ==
    /\ InFetch
    /\ \E nodes \in Pages(Len(Flatten(received))), page_info \in PageInfos(Len(requests) + 1), h \in RateHeaders :
        LET r == AppendNodes(repo_data, nodes)
            sleeps == ~r.raised /\ RateLimited(h)
            raised == r.raised \/ (sleeps /\ SleepRaises(WaitTime(h)))
            next == IF r.raised THEN has_next_page ELSE NextHasNextPage(page_info)
        IN /\ received' = Append(received, nodes)
           /\ requests' = Append(requests, cursor)
           /\ replies' = Append(replies, [kind |-> IF raised THEN "page_raised" ELSE "page",
                                          status |-> 200, page_info |-> page_info])
           /\ repo_data' = r.data
           /\ has_next_page' = next
           /\ cursor' = IF r.raised THEN cursor ELSE NextCursor(cursor, page_info)
           /\ fd_slept' = IF sleeps /\ ~raised THEN Some(WaitTime(h)) ELSE None
           /\ fd_headers' = IF r.raised THEN None ELSE Some(h)
           /\ fd_pc' = IF raised \/ ~next THEN "main" ELSE "fetch"
           /\ UNCHANGED csv_file
    /\ UNCHANGED <<script, lfs_vars, pd_vars>>

\* write_csv(data): the file holds the rows of data.
WriteCsv(data) == Some(data)
\* Slip: the file is never written.
NeverWritten(repo_details) == None
\* "if repo_details: write_csv(repo_details)"
OutputOf(repo_details) == IF repo_details # <<>> THEN WriteCsv(repo_details) ELSE None

FdMain ==
    /\ script = "fetch_repo_details" /\ fd_pc = "main"
    /\ csv_file' = OutputOf(repo_data)
    /\ fd_pc' = "done"
    /\ UNCHANGED <<has_next_page, cursor, repo_data, requests, replies, received, fd_slept, fd_headers>>
    /\ UNCHANGED <<script, lfs_vars, pd_vars>>

\* ------------------------------------------------------------ lfs-repos.py
\* What a step did: the function whose safe_request call it belongs to, the
\* repository (listing) and page or branch position of the call, the attempt
\* number, how the attempt ended (outcome), what safe_request did then
\* (result: "retry", or it returned "none" or a "response"), the items of a
\* page and the sleeps performed.
Event(fn, listing, pg, att, outcome, result, items, slept) ==
    [fn |-> fn, listing |-> listing, page |-> pg, attempt |-> att,
     outcome |-> outcome, result |-> result, items |-> items, slept |-> slept]

LfsInit ==
    /\ lfs_pc = "get_repositories"
    /\ attempt = 0
    /\ repos = <<>>
    /\ page = 1
    /\ repositories = <<>>
    /\ index = 0
    /\ branches = <<>>
    /\ results = <<>>
    /\ bidx = 0
    /\ gb_branches = <<>>
    /\ gb_page = 1
    /\ lfs_csv = None
    /\ lfs_last = Event("main", 0, 0, 0, "start", "start", <<>>, <<>>)
    /\ repos_recv = <<>>
    /\ gb_recv = <<>>
    /\ probes = [repo |-> 0, log |-> <<>>]

InLfs(fn) == script = "lfs_repos" /\ lfs_pc = fn

\* main's "for index, repo in enumerate(repositories, start=1)" reaches item
\* i of rs with the rows res: get_branches is called for it, or the loop is
\* over and the CSV is written.
MainLoop(i, rs, res) ==
    /\ repositories' = rs
    /\ results' = res
    /\ attempt' = 0
    /\ IF i <= Len(rs)
       THEN /\ lfs_pc' = "get_branches"
            /\ index' = i
            /\ gb_branches' = <<>>
            /\ gb_page' = 1
            /\ UNCHANGED lfs_csv
       ELSE /\ lfs_pc' = "done"
            /\ lfs_csv' = Some(res)
            /\ UNCHANGED <<index, gb_branches, gb_page>>

\* The row of the current repository is appended; on to the next one.
FinishRepo(brs, used) ==
    MainLoop(index + 1, repositories, Append(results, Row(repositories[index], brs, used)))

\* get_repositories returns rs to main.
ReposReturn(rs) ==
    /\ MainLoop(1, rs, <<>>)
    /\ UNCHANGED <<repos, page, branches, bidx, gb_recv, probes>>

\* get_branches returns brs to main: the probes of its branches start, or
\* the repository has none and its row is written at once.
GbRecvSoFar == IF gb_page = 1 THEN <<>> ELSE gb_recv

BranchesReturn(brs) ==
    /\ branches' = brs
    /\ probes' = [repo |-> index, log |-> <<>>]
    /\ IF brs = <<>>
       THEN /\ FinishRepo(brs, "No")
            /\ bidx' = 0
       ELSE /\ lfs_pc' = "check_lfs_usage"
            /\ bidx' = 1
            /\ attempt' = 0
            /\ UNCHANGED <<repositories, results, index, gb_branches, gb_page, lfs_csv>>
    /\ UNCHANGED <<repos, page, repos_recv>>

\* An attempt of safe_request fails; the call is retried or gives up.
ReposFail ==
    /\ InLfs("get_repositories")
    /\ \E kind \in FailureKinds :
        /\ lfs_last' = Event("get_repositories", 0, page, attempt, kind, AfterFailure(attempt), <<>>, <<FailureDelay(kind)>>)
        /\ IF AfterFailure(attempt) = "retry"
           THEN /\ attempt' = NextAttempt(attempt)
                /\ UNCHANGED <<lfs_pc, repos, page, repositories, index, branches, results,
                               bidx, gb_branches, gb_page, lfs_csv, gb_recv, probes>>
           ELSE ReposReturn(OnNoResult(repos))
    /\ UNCHANGED <<repos_recv, script, fd_vars, pd_vars>>

\* 404: safe_request returns the response, which is falsy: return repos.
Repos404 ==
    /\ InLfs("get_repositories")
    /\ lfs_last' = Event("get_repositories", 0, page, attempt, "404", "response", <<>>, <<>>)
    /\ ReposReturn(OnNoResult(repos))
    /\ UNCHANGED <<repos_recv, script, fd_vars, pd_vars>>

\* 200 whose body is no JSON: response.json() raises, nothing catches it.
ReposMalformed ==
    /\ InLfs("get_repositories")
    /\ lfs_last' = Event("get_repositories", 0, page, attempt, "malformed", "response", <<>>, <<>>)
    /\ lfs_pc' = "crashed"
    /\ UNCHANGED <<attempt, repos, page, repositories, index, branches, results,
                   bidx, gb_branches, gb_page, lfs_csv, repos_recv, gb_recv, probes>>
    /\ UNCHANGED <<script, fd_vars, pd_vars>>

\* 200 with a page of the listing.
ReposPage ==
    /\ InLfs("get_repositories")
    /\ \E data \in ListingPages(RepoNames, Len(repos), MaxRepos) :
        /\ repos_recv' = Append(repos_recv, data)
        /\ IF data = <<>>
           THEN /\ lfs_last' = Event("get_repositories", 0, page, attempt, "page", "response", data, <<>>)
                /\ ReposReturn(repos)
           ELSE /\ repos' = repos \o data
                /\ page' = NextPage(page)
                /\ attempt' = 0
                /\ lfs_last' = Event("get_repositories", 0, page, attempt, "page", "response", data,
                                     ReposPageSleeps(Len(repos \o data)))
                /\ UNCHANGED <<lfs_pc, repositories, index, branches, results,
                               bidx, gb_branches, gb_page, lfs_csv, gb_recv, probes>>
    /\ UNCHANGED <<script, fd_vars, pd_vars>>

BranchesFail ==
    /\ InLfs("get_branches")
    /\ \E kind \in FailureKinds :
        /\ lfs_last' = Event("get_branches", index, gb_page, attempt, kind, AfterFailure(attempt), <<>>, <<FailureDelay(kind)>>)
        /\ IF AfterFailure(attempt) = "retry"
           THEN /\ attempt' = NextAttempt(attempt)
                /\ UNCHANGED <<lfs_pc, repos, page, repositories, index, branches, results,
                               bidx, gb_branches, gb_page, lfs_csv, repos_recv, gb_recv, probes>>
           ELSE /\ gb_recv' = GbRecvSoFar
                /\ BranchesReturn(OnNoResult(gb_branches))
    /\ UNCHANGED <<script, fd_vars, pd_vars>>

Branches404 ==
    /\ InLfs("get_branches")
    /\ lfs_last' = Event("get_branches", index, gb_page, attempt, "404", "response", <<>>, <<>>)
    /\ gb_recv' = GbRecvSoFar
    /\ BranchesReturn(OnNoResult(gb_branches))
    /\ UNCHANGED <<script, fd_vars, pd_vars>>

BranchesMalformed ==
    /\ InLfs("get_branches")
    /\ lfs_last' = Event("get_branches", index, gb_page, attempt, "malformed", "response", <<>>, <<>>)
    /\ lfs_pc' = "crashed"
    /\ UNCHANGED <<attempt, repos, page, repositories, index, branches, results,
                   bidx, gb_branches, gb_page, lfs_csv, repos_recv, gb_recv, probes>>
    /\ UNCHANGED <<script, fd_vars, pd_vars>>

BranchesPage ==
    /\ InLfs("get_branches")
    /\ \E data \in ListingPages(BranchNames, Len(gb_branches), MaxBranches) :
        /\ gb_recv' = Append(GbRecvSoFar, data)
        /\ IF data = <<>>
           THEN /\ lfs_last' = Event("get_branches", index, gb_page, attempt, "page", "response", data, <<>>)
                /\ BranchesReturn(gb_branches)
           ELSE /\ gb_branches' = gb_branches \o Names(data)
                /\ gb_page' = NextPage(gb_page)
                /\ attempt' = 0
                /\ lfs_last' = Event("get_branches", index, gb_page, attempt, "page", "response", data,
                                     BranchesPageSleeps(Len(gb_branches \o Names(data))))
                /\ UNCHANGED <<lfs_pc, repos, page, repositories, index, branches, results,
                               bidx, lfs_csv, repos_recv, probes>>
    /\ UNCHANGED <<script, fd_vars, pd_vars>>

\* check_lfs_usage returns for branch number bidx, safe_request having
\* returned 'response'; main's loop over the branches goes on.
ProbeReturn(response) ==
    LET found == CheckLfsUsage(response)
        step == AuditStep(found, bidx, Len(branches))
    IN /\ probes' = [probes EXCEPT !.log = Append(@, [branch |-> branches[bidx],
                                                       marker |-> FileHasMarker(response)])]
       /\ IF step = "next"
          THEN /\ bidx' = bidx + 1
               /\ attempt' = 0
               /\ UNCHANGED <<lfs_pc, repositories, index, results, gb_branches, gb_page, lfs_csv>>
          ELSE /\ FinishRepo(branches, IF step = "yes" THEN "Yes" ELSE "No")
               /\ UNCHANGED bidx
       /\ UNCHANGED <<repos, page, branches, repos_recv, gb_recv>>

ProbeFail ==
    /\ InLfs("check_lfs_usage")
    /\ \E kind \in FailureKinds :
        /\ lfs_last' = Event("check_lfs_usage", index, bidx, attempt, kind, AfterFailure(attempt), <<>>, <<FailureDelay(kind)>>)
        /\ IF AfterFailure(attempt) = "retry"
           THEN /\ attempt' = NextAttempt(attempt)
                /\ UNCHANGED <<lfs_pc, repos, page, repositories, index, branches, results,
                               bidx, gb_branches, gb_page, lfs_csv, repos_recv, gb_recv, probes>>
           ELSE ProbeReturn(None)
    /\ UNCHANGED <<script, fd_vars, pd_vars>>

\* safe_request returns a response (404, or a status that raise_for_status
\* lets pass) to check_lfs_usage.
ProbeReply ==
    /\ InLfs("check_lfs_usage")
    /\ \E r \in ProbeResponses :
        /\ lfs_last' = Event("check_lfs_usage", index, bidx, attempt,
                             ProbeOutcome(r), "response", <<>>, <<>>)
        /\ ProbeReturn(Some(r))
    /\ UNCHANGED <<script, fd_vars, pd_vars>>


\* --------------------------------------------- the two paginators' pauses
\* get_repositories and get_branches run on the sizes of their pages alone:
\* the lists are kept as their lengths, every page is non-empty and arrives
\* at the first attempt.  per_page=100 caps the size of a page.
PER_PAGE == 100
PageSizes == {1, 30, 50, PER_PAGE}
MaxItems == 250

PdInit(fn) ==
    /\ pd_fn = fn
    /\ pd_prev = 0
    /\ pd_len = 0
    /\ pd_slept = <<>>

\* One iteration of the loop of paginator fn on a page of 'size' items.
PdPage(fn, size, sleeps) ==
    /\ pd_fn = fn
    /\ pd_len + size <= MaxItems
    /\ pd_prev' = pd_len
    /\ pd_len' = pd_len + size
    /\ pd_slept' = sleeps
    /\ UNCHANGED <<pd_fn, script, fd_vars, lfs_vars>>

\* repos.extend(data); the batch pause; page += 1; time.sleep(1)
PdReposPage == \E size \in PageSizes : PdPage("get_repositories", size, ReposPageSleeps(pd_len + size))
\* branches.extend(...); page += 1; time.sleep(1)
PdBranchesPage == \E size \in PageSizes : PdPage("get_branches", size, BranchesPageSleeps(pd_len + size))

Init ==
    /\ script \in {"fetch_repo_details", "lfs_repos"}
    /\ FdInit
    /\ LfsInit
    /\ PdInit("none")

Next ==
    \/ FetchPage
    \/ FetchException
    \/ FetchHttpError
    \/ FetchGraphQLErrors
    \/ FdMain
    \/ ReposFail
    \/ Repos404
    \/ ReposMalformed
    \/ ReposPage
    \/ BranchesFail
    \/ Branches404
    \/ BranchesMalformed
    \/ BranchesPage
    \/ ProbeFail
    \/ ProbeReply

Spec == Init /\ [][Next]_vars

\* Either script is one thread that takes its next step as long as it has
\* one; every request is answered, fails or times out.
FairSpec == Spec /\ WF_vars(Next)

DelayInit ==
    /\ script = "lfs_repos"
    /\ FdInit
    /\ LfsInit
    /\ \E fn \in {"get_repositories", "get_branches"} : PdInit(fn)

DelayNext ==
    \/ PdReposPage
    \/ PdBranchesPage

DelaySpec == DelayInit /\ [][DelayNext]_vars

\* =========================================================================
\* Properties
\* =========================================================================

\* The normalized records of a node list, one per node, in the list's order.
Records(nodes) == [i \in 1..Len(nodes) |-> Normalize(nodes[i])]

IsPageReply(r) == r.kind \in {"page", "page_raised"}
LastReply == replies[Len(replies)]

\* C1: in fetch_data the first request carries the null cursor, and every
\* request that follows a page reply with hasNextPage=true carries exactly
\* the endCursor of that reply, which is never the null cursor.
C1_NextRequestCarriesEndCursor ==
    \A i \in 1..Len(requests) :
        IF i = 1 THEN requests[i] = NULL
        ELSE /\ requests[i] # NULL
             /\ (IsPageReply(replies[i - 1]) /\ replies[i - 1].page_info.hasNextPage)
                    => requests[i] = replies[i - 1].page_info.endCursor

\* C1 witness: three requests were made and the second and third carry
\* different cursors.
C1_Witness ==
    /\ Len(requests) = 3
    /\ requests[2] = "c1"
    /\ requests[3] = "c2"
    /\ replies[2].page_info.endCursor = "c2"

\* C2: in fetch_data a page reply with hasNextPage=false is the last reply:
\* no request follows it and the loop is left, so a listing whose first
\* reply has hasNextPage=false takes exactly one request.
C2_LastPageEndsLoop ==
    \A i \in 1..Len(replies) :
        (IsPageReply(replies[i]) /\ ~replies[i].page_info.hasNextPage)
            => /\ i = Len(requests)
               /\ fd_pc # "fetch"

\* C2 witness: the run is over after one request whose reply was a page with
\* hasNextPage=false.
C2_Witness ==
    /\ fd_pc = "done"
    /\ Len(requests) = 1
    /\ replies[1].kind = "page"
    /\ ~replies[1].page_info.hasNextPage
    /\ repo_data # <<>>

\* C3: in get_repositories and get_branches an empty page ends the listing
\* (no request for it follows), and after a non-empty page the first attempt
\* of exactly the next page number of the same listing is under way.
C3_OffsetPaging ==
    /\ (lfs_last.fn = "get_repositories" /\ lfs_last.outcome = "page")
        => IF lfs_last.items = <<>>
           THEN lfs_pc # "get_repositories"
           ELSE /\ lfs_pc = "get_repositories"
                /\ page = lfs_last.page + 1
                /\ attempt = 0
    /\ (lfs_last.fn = "get_branches" /\ lfs_last.outcome = "page")
        => IF lfs_last.items = <<>>
           THEN ~(lfs_pc = "get_branches" /\ index = lfs_last.listing)
           ELSE /\ lfs_pc = "get_branches"
                /\ index = lfs_last.listing
                /\ gb_page = lfs_last.page + 1
                /\ attempt = 0

\* C3 witness: the second page of a branch listing arrived non-empty, so the
\* third page is being requested.
C3_Witness ==
    /\ lfs_last.fn = "get_branches"
    /\ lfs_last.outcome = "page"
    /\ lfs_last.page = 2
    /\ lfs_last.items # <<>>
    /\ gb_page = 3

\* C4: safe_request makes at most 3 attempts for one call; a failure of the
\* third attempt makes it return None, and then the caller goes on (the
\* paginator returns, the probe counts as false) and the run has not crashed;
\* a failure of an earlier attempt leaves the same call under way.
C4_ThreeAttemptsThenNone ==
    /\ attempt \in 0..2
    /\ lfs_last.attempt \in 0..2
    /\ (lfs_last.outcome \in FailureKinds /\ lfs_last.attempt = 2)
        => /\ lfs_last.result = "none"
           /\ lfs_pc # "crashed"
           /\ attempt = 0
           /\ CASE lfs_last.fn = "get_repositories" -> lfs_pc # "get_repositories"
                [] lfs_last.fn = "get_branches" ->
                       ~(lfs_pc = "get_branches" /\ index = lfs_last.listing)
                [] OTHER ->
                       ~(lfs_pc = "check_lfs_usage" /\ index = lfs_last.listing
                                                    /\ bidx = lfs_last.page)

\* C4 witness: the third attempt of the probe of the first of two branches
\* timed out and the second branch is being probed.
C4_Witness ==
    /\ lfs_last.fn = "check_lfs_usage"
    /\ lfs_last.outcome = "timeout"
    /\ lfs_last.attempt = 2
    /\ lfs_last.result = "none"
    /\ lfs_pc = "check_lfs_usage"
    /\ bidx = 2

\* C5: when a request ends in a terminal transport failure (safe_request
\* returned None; in fetch_data the request raised or its status was not
\* 200), the paginator makes no further request for the listing and returns
\* exactly the items of the pages it received before, in arrival order.
C5_PartialResultsReturned ==
    /\ (lfs_last.result = "none" /\ lfs_last.fn = "get_repositories")
        => /\ lfs_pc # "get_repositories"
           /\ repositories = Flatten(repos_recv)
    /\ (lfs_last.result = "none" /\ lfs_last.fn = "get_branches")
        => /\ ~(lfs_pc = "get_branches" /\ index = lfs_last.listing)
           /\ branches = Names(Flatten(gb_recv))
    /\ (replies # <<>> /\ LastReply.kind \in {"timeout", "connection", "http_error"})
        => /\ fd_pc # "fetch"
           /\ Len(received) = Len(replies) - 1
           /\ repo_data = Records(Flatten(received))

\* C5 witness: get_repositories gave up on its second page and returned the
\* repository of the first page, whose audit is under way.
C5_Witness ==
    /\ lfs_last.fn = "get_repositories"
    /\ lfs_last.result = "none"
    /\ lfs_last.page = 2
    /\ repositories = <<[name |-> "r1"]>>
    /\ lfs_pc = "get_branches"
\* The kinds of reply to fetch_data that are transient failures of the
\* transport: the request timed out, the connection broke, or the status
\* was a 5xx one.
IsTransientReply(r) ==
    \/ r.kind \in {"timeout", "connection"}
    \/ (r.kind = "http_error" /\ r.status >= 500)

\* What a failed attempt of safe_request must leave as it was for the
\* failure to be invisible: the position of the program and what it holds.
LfsProgress == <<lfs_pc, repos, page, repositories, index, branches, results,
                 bidx, gb_branches, gb_page, lfs_csv, repos_recv>>

\* In lfs-repos.py a failed attempt before the third is retried, and all it
\* changes is the attempt number: the same request is made again from the
\* same accumulated state.
LfsFailureIsRetried ==
    (lfs_last'.outcome \in FailureKinds /\ lfs_last'.attempt < 2)
        => /\ lfs_last'.result = "retry"
           /\ attempt' = attempt + 1
           /\ UNCHANGED LfsProgress

IsFatalReply(r) == r.kind \in {"errors", "page_raised"}

\* C7 as stated: a run of fetch_repo_details.py that met a fatal condition
\* writes no output file.
C7_Original ==
    (fd_pc = "done" /\ replies # <<>> /\ IsFatalReply(LastReply)) => csv_file = None

\* C7 amended: a fatal condition ends the loop of fetch_data (no request
\* follows it); the output file is then written exactly when at least one
\* record was accumulated before, and holds exactly those records.
C7_FatalWritesWhatWasAccumulated ==
    (replies # <<>> /\ IsFatalReply(LastReply))
        => /\ fd_pc # "fetch"
           /\ Len(requests) = Len(replies)
           /\ fd_pc = "done"
                => /\ (csv_file = None) <=> (repo_data = <<>>)
                   /\ repo_data # <<>> => csv_file = Some(repo_data)

\* C7 witness: the second request was answered with an 'errors' field and
\* the file with the records of the first page was written.
C7_Witness ==
    /\ fd_pc = "done"
    /\ Len(replies) = 2
    /\ LastReply.kind = "errors"
    /\ csv_file = Some(Records(received[1]))
    /\ received[1] # <<>>

\* The row of the repository whose probes are logged, once it is written.
AuditedRow == results[Len(results)]
FirstMarker(log) == {k \in 1..Len(log) : log[k].marker}

\* C8: the row of every audited repository says "Yes" exactly when the probe
\* of one of its listed branches returned an attributes file that holds the
\* marker, and "No" otherwise; the branches are probed in listing order, all
\* of them when none holds the marker, and none after the first that does.
C8_AuditIsShortCircuitOr ==
    (Len(results) >= 1 /\ probes.repo = Len(results))
        => /\ AuditedRow[1] = repositories[Len(results)].name
           /\ AuditedRow[2] = Join(", ", branches)
           /\ AuditedRow[3] \in {"Yes", "No"}
           /\ (AuditedRow[3] = "Yes") <=> (FirstMarker(probes.log) # {})
           /\ Len(probes.log) <= Len(branches)
           /\ \A k \in 1..Len(probes.log) : probes.log[k].branch = branches[k]
           /\ \A k \in FirstMarker(probes.log) : k = Len(probes.log)
           /\ (AuditedRow[3] = "No") => Len(probes.log) = Len(branches)

\* C8 witness: branches main and dev, only dev's attributes file holds the
\* marker, and the row is (r1, "main, dev", "Yes").
C8_Witness ==
    /\ Len(results) = 1
    /\ probes = [repo |-> 1, log |-> <<[branch |-> "main", marker |-> FALSE],
                                       [branch |-> "dev", marker |-> TRUE]>>]
    /\ results[1] = <<"r1", <<"main", ", ", "dev">>, "Yes">>

\* C9: a 404 reply to the probe is returned by safe_request at once (no
\* retry, no sleep); check_lfs_usage returns false for the branch, nothing is
\* raised, and the scan goes on: the next branch is probed, or, after the
\* last branch, the row is written with "No".
C9_NotFoundIsFalse ==
    (lfs_last.fn = "check_lfs_usage" /\ lfs_last.outcome = "404")
        => /\ lfs_last.result = "response"
           /\ lfs_last.slept = <<>>
           /\ lfs_pc # "crashed"
           /\ attempt = 0
           /\ IF lfs_last.page < Len(branches)
              THEN /\ lfs_pc = "check_lfs_usage"
                   /\ index = lfs_last.listing
                   /\ bidx = lfs_last.page + 1
                   /\ Len(results) = lfs_last.listing - 1
              ELSE /\ Len(results) = lfs_last.listing
                   /\ results[lfs_last.listing][3] = "No"
                   /\ ~(lfs_pc = "check_lfs_usage" /\ index = lfs_last.listing)

\* C9 witness: the probe of the first of two branches got a 404 on its
\* second attempt and the second branch is being probed.
C9_Witness ==
    /\ lfs_last.fn = "check_lfs_usage"
    /\ lfs_last.outcome = "404"
    /\ lfs_last.attempt = 1
    /\ lfs_last.page = 1
    /\ bidx = 2
    /\ lfs_pc = "check_lfs_usage"

\* C10: when fetch_data has left its loop and every reply was a page that
\* was processed without an exception, the last with hasNextPage=false,
\* repo_data holds one record per node received, in arrival order: as many
\* records as the pages had nodes.
C10_OneRecordPerNodeInArrivalOrder ==
    (/\ fd_pc # "fetch"
     /\ replies # <<>>
     /\ \A i \in 1..Len(replies) : replies[i].kind = "page")
        => /\ ~LastReply.page_info.hasNextPage
           /\ repo_data = Records(Flatten(received))
           /\ Len(repo_data) = Len(Flatten(received))

\* C10 witness: two pages, of two nodes and of one, gave three records.
C10_Witness ==
    /\ fd_pc = "done"
    /\ Len(received) = 2
    /\ Len(received[1]) = 2
    /\ Len(received[2]) = 1
    /\ replies[1].kind = "page" /\ replies[2].kind = "page"
    /\ received[1][1] # received[1][2]
    /\ Len(repo_data) = 3

\* C11: in fetch_data, after a successful page reply that declares a remaining
\* quota below 10 the loop has slept for the declared time to reset plus the
\* 5-second margin before it goes on to the next request; after one that
\* declares a remaining quota of 10 or more it has not slept at all.
C11_RateLimitSleep ==
    (script = "fetch_repo_details" /\ replies # <<>> /\ LastReply.kind = "page") =>
        /\ fd_headers # None
        /\ LET h == Get(fd_headers)
           IN /\ (~IsNone(h.remaining) /\ Get(h.remaining) < 10 /\ ~IsNone(h.resetIn))
                    => fd_slept = Some(Get(h.resetIn) + 5)
              /\ (~IsNone(h.remaining) /\ Get(h.remaining) >= 10)
                    => fd_slept = None
\* A page whose headers declare 5 calls left and a reset in 30 seconds was
\* slept on for 35 seconds and the loop is about to send the next request.
C11_Witness ==
    /\ script = "fetch_repo_details" /\ fd_pc = "fetch"
    /\ replies # <<>> /\ LastReply.kind = "page"
    /\ fd_headers = Some([remaining |-> Some(5), resetIn |-> Some(30)])
    /\ fd_slept = Some(35)

Has(seq, x) == \E i \in DOMAIN seq : seq[i] = x

\* C12 as stated: after every page each offset paginator pauses 1 second, and
\* it pauses 10 seconds whenever the page took the number of accumulated
\* items past another multiple of 100.
C12_Original ==
    (pd_len > pd_prev) =>
        /\ Has(pd_slept, 1)
        /\ (pd_prev \div 100 < pd_len \div 100) => Has(pd_slept, 10)

\* C12: after every non-empty page each offset paginator pauses 1 second
\* before the next request; get_repositories first pauses 10 seconds when the
\* page leaves the number of accumulated repositories an exact multiple of
\* 100, and only then; get_branches never pauses 10 seconds.
C12_PageDelays ==
    (pd_len > pd_prev) =>
        pd_slept = IF pd_fn = "get_repositories" /\ pd_len % 100 = 0 THEN <<10, 1>> ELSE <<1>>
\* get_repositories reaches 100 repositories with its second page of 50 and
\* pauses 10 seconds, then 1.
C12_Witness ==
    /\ pd_fn = "get_repositories"
    /\ pd_prev = 50 /\ pd_len = 100
    /\ pd_slept = <<10, 1>>

\* The nodes of all pages received, in arrival order.
Flat == Flatten(received)
\* The node whose dict literal raised, when a page was not processed to its end.
Stopped == Flat[Len(repo_data) + 1]
HasNullCount(node) == \E f \in CountFields : IsNone(node.counts[f])

\* C13: a node without default branch (defaultBranchRef null) gets its record
\* appended with total_commits = 0, and it never is the node at which the
\* loop stops with a fault, unless another of its sub-objects is null.
C13_NoDefaultBranchIsZeroCommits ==
    /\ Len(repo_data) <= Len(Flat)
    /\ \A i \in 1..Len(repo_data) :
          IsNone(Flat[i].defaultBranchRef) =>
              /\ repo_data[i].repo_name = Flat[i].name
              /\ repo_data[i].total_commits = 0
    /\ (Len(repo_data) < Len(Flat) /\ IsNone(Stopped.defaultBranchRef))
          => (HasNullCount(Stopped) \/ IsNone(Stopped.languages))
\* The first page held a node without default branch; its record is there
\* with 0 commits and the second page was requested and processed too.
C13_Witness ==
    /\ Len(received) = 2
    /\ received[1] = <<nodeBare>>
    /\ Len(repo_data) = 2
    /\ repo_data[1].repo_name = "beta" /\ repo_data[1].total_commits = 0
    /\ LastReply.kind = "page"

\* C14: whichever sub-object carrying a numeric field is null in a node
\* (diskUsage, defaultBranchRef, or one of the eight connections counted), the
\* record of the node is produced with 0 in that field and the loop does not
\* stop at the node.
C14_NullSubObjectIsZero ==
    /\ \A i \in 1..Len(repo_data) :
          /\ IsNone(Flat[i].diskUsage) => repo_data[i].repo_size_mb = 0
          /\ IsNone(Flat[i].defaultBranchRef) => repo_data[i].total_commits = 0
    /\ (Len(repo_data) < Len(Flat)) => ~HasNullCount(Stopped)

\* 'out' is the names, in their order, with sep between every two of them.
JoinedWith(sep, names, out) ==
    /\ Len(out) = 2 * Len(names) - 1
    /\ \A k \in 1..Len(names) : out[2 * k - 1] = names[k]
    /\ \A k \in 1..(Len(names) - 1) : out[2 * k] = sep

\* C15: the language string of every record is "N/A" when the language list
\* of its node is empty, and otherwise the names of the list joined with ", "
\* in the order of the list.
C15_LanguageString ==
    \A i \in 1..Len(repo_data) :
        LET names == Get(Flat[i].languages)
        IN IF names = <<>>
           THEN repo_data[i].languages = <<"N/A">>
           ELSE JoinedWith(", ", names, repo_data[i].languages)
\* A node with two languages and one with none were normalized.
C15_Witness ==
    /\ Len(repo_data) = 2
    /\ Flat[1].languages = Some(<<"Python", "Go">>)
    /\ repo_data[1].languages = <<"Python", ", ", "Go">>
    /\ Flat[2].languages = Some(<<>>)
    /\ repo_data[2].languages = <<"N/A">>

\* C16: when the reply to a probe is an attributes file whose content cannot
\* be decoded, check_lfs_usage returns false and nothing is raised: the scan
\* goes on with the next branch, or, after the last branch, the repository's
\* row is written with "No".
C16_UndecodableIsFalse ==
    (lfs_last.fn = "check_lfs_usage" /\ lfs_last.outcome = "undecodable")
        => /\ lfs_pc # "crashed"
           /\ IF lfs_last.page < Len(branches)
              THEN /\ lfs_pc = "check_lfs_usage"
                   /\ index = lfs_last.listing
                   /\ bidx = lfs_last.page + 1
                   /\ attempt = 0
                   /\ Len(results) = lfs_last.listing - 1
              ELSE /\ Len(results) = lfs_last.listing
                   /\ results[lfs_last.listing][1] = repositories[lfs_last.listing].name
                   /\ results[lfs_last.listing][3] = "No"
                   /\ ~(lfs_pc = "check_lfs_usage" /\ index = lfs_last.listing)
\* The attributes file of the first of two branches could not be decoded and
\* the second branch is being probed.
C16_Witness ==
    /\ lfs_last.fn = "check_lfs_usage"
    /\ lfs_last.outcome = "undecodable"
    /\ lfs_last.page = 1
    /\ Len(branches) = 2
    /\ bidx = 2
    /\ lfs_pc = "check_lfs_usage"

\* The latest reply was a data page (status 200, no errors field) and, if its
\* rate-limit headers were read, the rate-limit wait did not raise.
DataPageWaitedOn ==
    /\ script = "fetch_repo_details" /\ replies # <<>>
    /\ IsPageReply(LastReply)
    /\ (fd_headers # None) => LastReply.kind = "page"

\* C17: what fetch_data does after a data page is fixed by the pageInfo of
\* the reply, whatever nodes the page holds: with hasNextPage=true the loop
\* goes on to request the page at endCursor, with hasNextPage=false it ends.
\* (A page without nodes is dealt with exactly so; a state where the loop
\* does otherwise is one of two runs that differ in node contents only and
\* do not issue the same requests.)
C17_ControlFromTransportOnly ==
    DataPageWaitedOn =>
        IF LastReply.page_info.hasNextPage
        THEN fd_pc = "fetch" /\ has_next_page /\ cursor = LastReply.page_info.endCursor
        ELSE fd_pc # "fetch"

\* C18 as stated: safe_request sleeps the timeout's delay (5 seconds) after
\* every timeout, and after a connection error a delay that differs from it.
C18_Original ==
    /\ (lfs_last.outcome = "timeout") => lfs_last.slept = <<5>>
    /\ (lfs_last.outcome = "connection") => (Len(lfs_last.slept) = 1 /\ lfs_last.slept[1] # 5)

\* C18: the delay safe_request sleeps after a failed attempt is fixed by the
\* kind of the failure alone: 5 seconds after a timeout, 5 seconds after a
\* connection error, 3 seconds after any other request exception, at every
\* attempt and for every caller.
C18_FailureDelays ==
    (lfs_last.outcome \in {"timeout", "connection", "request_exception"}) =>
        lfs_last.slept = <<IF lfs_last.outcome = "request_exception" THEN 3 ELSE 5>>
\* The second attempt of a branch probe failed with a connection error and
\* was slept on for 5 seconds.
C18_Witness ==
    /\ lfs_last.fn = "check_lfs_usage"
    /\ lfs_last.outcome = "connection"
    /\ lfs_last.attempt = 1
    /\ lfs_last.slept = <<5>>

\* C19: whatever the rate-limit headers of a data page whose nodes were all
\* normalized, the loop does not end on the wait: every node of every page
\* received has its record, and with hasNextPage=true the page at endCursor
\* is requested next.
C19_WaitKeepsPaginating ==
    (script = "fetch_repo_details" /\ replies # <<>> /\ fd_headers # None) =>
        /\ Len(repo_data) = Len(Flat)
        /\ LastReply.page_info.hasNextPage
              => (fd_pc = "fetch" /\ cursor = LastReply.page_info.endCursor)

\* fetch_data has returned to __main__.
FdReturned == fd_pc \in {"main", "done"}
\* get_repositories has returned to main.
ReposReturned == lfs_pc \in {"get_branches", "check_lfs_usage", "done"}
\* The get_branches call for repository number i has returned to main.
BranchesReturned(i) == probes.repo = i
\* A 200 reply whose body is no JSON ended the script with an uncaught exception.
Crashed == lfs_pc = "crashed"

\* C20: against a listing of finitely many pages every paginator returns in
\* the end, whatever replies and transport failures it meets: fetch_data
\* returns, get_repositories returns, and every call of get_branches returns
\* (the offset paginators unless a 200 reply with a body that is no JSON, which
\* is neither a page nor a transport failure, ends the script).
C20_PaginatorsReturn ==
    /\ (script = "fetch_repo_details") => <>FdReturned
    /\ (script = "lfs_repos") => <>(ReposReturned \/ Crashed)
    /\ \A i \in 1..MaxRepos :
          (lfs_pc = "get_branches" /\ index = i) ~> (BranchesReturned(i) \/ Crashed)
\* get_branches has returned for the second repository after its first two
\* attempts failed, get_repositories having returned two repositories.
C20_Witness ==
    /\ script = "lfs_repos"
    /\ Len(repositories) = 2
    /\ lfs_last.fn = "get_branches" /\ lfs_last.listing = 2
    /\ lfs_last.attempt = 2 /\ lfs_last.outcome = "page" /\ lfs_last.items = <<>>
    /\ probes.repo = 2

====
